---- MODULE Spec2Model ----
(***************************************************************************)
(* RedisServer (src/redis_server_lab2.py): an in-memory key-value store    *)
(* with TTL expiry, served by one thread per client connection plus one    *)
(* background cleanup thread.  No lock guards the two dictionaries or the  *)
(* two counters, so every access to self.store, self.expiry_times,         *)
(* self.total_commands, self.connected_clients and every call of           *)
(* time.time() is one atomic step of the thread that makes it, and the     *)
(* threads' steps interleave freely.                                       *)
(*                                                                         *)
(* Dictionaries are insertion-ordered sequences of <<key, value>> pairs.   *)
(* The clock counts ticks; one second is TicksPerSec ticks.  Replies are   *)
(* the strings written to the client socket.  A command line is the        *)
(* sequence of its whitespace-separated tokens.                            *)
(***************************************************************************)
EXTENDS Integers, Sequences, FiniteSets, TLC

\* ---------------------------------------------------------------- bounds
NumSessions == 2
MaxCmds == 3
MaxSweepCmds == 4
MaxReadCmds == 4
MaxTime == 3
TicksPerSec == 2

Sessions == 1..NumSessions

VARIABLES store, expiry_times, now, connected_clients, total_commands,
          sess, sweeper,
          issued    \* history: the number of command lines received so far

vars == <<store, expiry_times, now, connected_clients, total_commands,
          sess, sweeper, issued>>

\* ---------------------------------------------------------- dictionaries
Has(d, k) == \E j \in 1..Len(d) : d[j][1] = k

IndexOf(d, k) == CHOOSE j \in 1..Len(d) : d[j][1] = k

Lookup(d, k) == d[IndexOf(d, k)][2]

Put(d, k, v) ==
    IF Has(d, k) THEN [d EXCEPT ![IndexOf(d, k)] = <<k, v>>]
                 ELSE Append(d, <<k, v>>)

\* A faulty del, to test the separation of keys against: it empties the
\* dictionary.
RemoveAll(d, k) == <<>>

Remove(d, k) == SelectSeq(d, LAMBDA p : p[1] # k)

DictKeys(d) == [j \in 1..Len(d) |-> d[j][1]]

\* ------------------------------------------------------- text conversions
RECURSIVE Join(_)
Join(toks) ==
    IF Len(toks) = 0 THEN ""
    ELSE IF Len(toks) = 1 THEN toks[1]
    ELSE toks[1] \o " " \o Join(Tail(toks))

Upper(tok) ==
    CASE tok = "set" -> "SET"
      [] tok = "get" -> "GET"
      [] tok = "del" -> "DEL"
      [] tok = "expire" -> "EXPIRE"
      [] tok = "ttl" -> "TTL"
      [] tok = "pttl" -> "PTTL"
      [] tok = "ping" -> "PING"
      [] tok = "echo" -> "ECHO"
      [] tok = "keys" -> "KEYS"
      [] tok = "exists" -> "EXISTS"
      [] tok = "type" -> "TYPE"
      [] tok = "flushall" -> "FLUSHALL"
      [] tok = "info" -> "INFO"
      [] tok = "foo" -> "FOO"
      [] OTHER -> tok

\* int(seconds_str): the decimal numerals of the seconds a client may send.
SecondsRange == -2..2

IsInt(tok) == \E n \in SecondsRange : ToString(n) = tok

ParseInt(tok) == CHOOSE n \in SecondsRange : ToString(n) = tok

\* int(x / d): Python's int() truncates toward zero.
TruncDiv(x, d) == IF x >= 0 THEN x \div d ELSE -((-x) \div d)

\* ----------------------------------------------------------------- replies
CRLF == "\r\n"

OkReply == "+OK" \o CRLF

NullReply == "$-1" \o CRLF

IntReply(n) == ":" \o ToString(n) \o CRLF

BulkReply(v) == "$" \o ToString(Len(v)) \o CRLF \o v \o CRLF

SimpleReply(text) == "+" \o text \o CRLF

ArityError(cmd) ==
    "-ERR wrong number of arguments for '" \o cmd \o "' command" \o CRLF

\* except Exception as e: str(KeyError(key)) is the key in quotes.
KeyErrorReply(k) == "-ERR '" \o k \o "'" \o CRLF

NotIntReply == "-ERR value is not an integer or out of range" \o CRLF

UnknownReply(cmd) == "-ERR unknown command '" \o cmd \o "'" \o CRLF

RECURSIVE KeysBody(_)
KeysBody(ks) ==
    IF Len(ks) = 0 THEN ""
    ELSE BulkReply(ks[1]) \o KeysBody(Tail(ks))

ArrayReply(ks) ==
    IF Len(ks) = 0 THEN "*0" \o CRLF
    ELSE "*" \o ToString(Len(ks)) \o CRLF \o KeysBody(ks)

InfoText(uptime, clients, commands, size, connections) ==
    "# Server\n" \o "redis_version:1.0.0-custom\n"
    \o "uptime_in_seconds:" \o ToString(uptime) \o "\n"
    \o "connected_clients:" \o ToString(clients) \o "\n"
    \o "total_commands_processed:" \o ToString(commands) \o "\n"
    \o "\n# Memory\n"
    \o "used_memory:" \o ToString(size) \o "\n"
    \o "\n# Stats\n"
    \o "total_connections_received:" \o ToString(connections) \o "\n"
    \o "keyspace_hits:0\n" \o "keyspace_misses:0\n"

\* ------------------------------------------------------ thread-local state
\* A client thread's state.  Its history, kept for stating properties:
\*   line, reply:      the last command line received and the reply sent
\*   prev, prevReply:  the command line before that one and its reply
\*   pre:              the maps and the clock when `line` was received
\* Its working state, all reset between command lines:
\*   pc:    the statement the thread is at ("recv": between command lines)
\*   i, n:  the loop index into args or keys; a count or a value read
\*   t:     the last result of time.time()
\*   ret:   the caller of _is_expired
\*   keys:  list(self.store.keys());  cur: current_keys, or values read
\* Its connection, when the model follows the bytes of the connection:
\*   stream: all the bytes the client sends;  input: those not yet read
\*   buffer: the characters read and not yet processed
\*   out:    the replies sent to the command lines before `line`
NoSnapshot == [store |-> <<>>, expiry_times |-> <<>>, now |-> 0]

NewSession ==
    [pc |-> "new", line |-> <<>>, reply |-> "", prev |-> <<>>, prevReply |-> "",
     pre |-> NoSnapshot,
     stream |-> <<>>, input |-> <<>>, buffer |-> <<>>, out |-> <<>>,
     i |-> 0, n |-> 0, t |-> 0, ret |-> "", keys |-> <<>>, cur |-> <<>>]

SweeperRest ==
    [pc |-> "time", current_time |-> 0, used |-> 0, pos |-> 0,
     expired_keys |-> <<>>, i |-> 0]

Init ==
    /\ store = <<>>
    /\ expiry_times = <<>>
    /\ now = 0
    /\ connected_clients = 0
    /\ total_commands = 0
    /\ sess = [s \in Sessions |-> NewSession]
    /\ sweeper = SweeperRest
    /\ issued = 0

Command(l) == Upper(l.line[1])

Args(l) == Tail(l.line)

\* The reply is sent and the session is back at recv.
Done(l, reply) ==
    [l EXCEPT !.pc = "recv", !.reply = reply,
              !.i = 0, !.n = 0, !.t = 0, !.ret = "", !.keys = <<>>, !.cur = <<>>]

Goto(l, pc) == [l EXCEPT !.pc = pc]

\* The call self._is_expired(key) whose result continues at `ret`.
CallIsExpired(l, ret) == [l EXCEPT !.pc = "exp_has", !.ret = ret]

\* The key a handler is working on.
CurKey(l) ==
    CASE Command(l) \in {"DEL", "EXISTS"} -> Args(l)[l.i]
      [] Command(l) = "KEYS" -> l.keys[l.i]
      [] OTHER -> Args(l)[1]

\* After the last statement of one pass of `for key in args`.
NextArg(l, head) ==
    IF l.i < Len(Args(l)) THEN [l EXCEPT !.pc = head, !.i = l.i + 1]
    ELSE Done(l, IntReply(l.n))

\* The handler continues with the result b of self._is_expired(key).
Return(l0, b) ==
    LET l == [l0 EXCEPT !.t = 0, !.ret = ""] IN
    CASE l0.ret = "get1" ->
           IF b THEN CallIsExpired(l, "get2") ELSE Goto(l, "get_read")
      [] l0.ret = "get2" ->
           IF b THEN Goto(l, "get_has_store") ELSE Done(l, NullReply)
      [] l0.ret = "expire" ->
           IF b THEN Done(l, IntReply(0)) ELSE Goto(l, "expire_time")
      [] l0.ret = "ttl" ->
           IF b THEN Done(l, IntReply(-2)) ELSE Goto(l, "ttl_has_exp")
      [] l0.ret = "keys" ->
           LET cur == IF b THEN l.cur ELSE Append(l.cur, CurKey(l)) IN
           IF l.i < Len(l.keys)
           THEN CallIsExpired([l EXCEPT !.cur = cur, !.i = l.i + 1], "keys")
           ELSE Done(l, ArrayReply(cur))
      [] l0.ret = "exists" ->
           NextArg([l EXCEPT !.n = IF b THEN l.n ELSE l.n + 1], "exists_has")
      [] l0.ret = "type" ->
           IF b THEN Done(l, SimpleReply("none"))
           ELSE Done(l, SimpleReply("string"))

\* _process_command after the counter is stored: parse, dispatch, and each
\* handler's arity check, up to the handler's first access of shared state.
Dispatch(l) ==
    LET command == Command(l)
        args == Args(l)
    IN
    CASE command = "SET" ->
           IF Len(args) < 2 THEN Done(l, ArityError("set"))
           ELSE Goto(l, "set_store")
      [] command = "GET" ->
           IF Len(args) # 1 THEN Done(l, ArityError("get"))
           ELSE Goto(l, "get_has")
      [] command = "DEL" ->
           IF Len(args) < 1 THEN Done(l, ArityError("del"))
           ELSE Goto([l EXCEPT !.i = 1], "del_has_store")
      [] command = "EXPIRE" ->
           IF Len(args) # 2 THEN Done(l, ArityError("expire"))
           ELSE IF ~IsInt(args[2]) THEN Done(l, NotIntReply)
           ELSE Goto(l, "expire_has")
      [] command = "TTL" ->
           IF Len(args) # 1 THEN Done(l, ArityError("ttl"))
           ELSE Goto(l, "ttl_has")
      [] command = "PTTL" ->
           IF Len(args) # 1 THEN Done(l, ArityError("pttl"))
           ELSE Goto(l, "ttl_has")
      [] command = "PING" -> Done(l, SimpleReply("PONG"))
      [] command = "ECHO" -> Done(l, SimpleReply(Join(args)))
      [] command = "KEYS" -> Goto(l, "keys_list")
      [] command = "EXISTS" ->
           IF Len(args) < 1 THEN Done(l, ArityError("exists"))
           ELSE Goto([l EXCEPT !.i = 1], "exists_has")
      [] command = "TYPE" ->
           IF Len(args) # 1 THEN Done(l, ArityError("type"))
           ELSE Goto(l, "type_has")
      [] command = "FLUSHALL" -> Goto(l, "flush_store")
      [] command = "INFO" -> Goto(l, "info_time")
      [] OTHER -> Done(l, UnknownReply(command))

\* --------------------------------------------------------------- sessions
\* _handle_client: self.connected_clients += 1 reads the counter ...
Connect(s) ==
    /\ sess[s].pc = "new"
    /\ sess' = [sess EXCEPT ![s] = [sess[s] EXCEPT !.pc = "connect", !.n = connected_clients]]
    /\ UNCHANGED <<store, expiry_times, now, connected_clients, total_commands,
                   sweeper, issued>>

\* ... and writes it back incremented; the banner is sent.
ConnectStore(s) ==
    /\ sess[s].pc = "connect"
    /\ connected_clients' = sess[s].n + 1
    /\ sess' = [sess EXCEPT ![s] =
                  Done(sess[s], SimpleReply("OK Redis server ready"))]
    /\ UNCHANGED <<store, expiry_times, now, total_commands, sweeper, issued>>

\* recv delivers the non-empty command line `line`; _process_command starts:
\* self.total_commands += 1 reads the counter ...  (cap bounds the run.)
Recv(s, line, cap) ==
    /\ sess[s].pc = "recv"
    /\ issued < cap
    /\ issued' = issued + 1
    /\ sess' = [sess EXCEPT ![s] =
                  [sess[s] EXCEPT
                     !.pc = "count", !.n = total_commands,
                     !.line = line, !.reply = "",
                     !.prev = sess[s].line, !.prevReply = sess[s].reply,
                     !.pre = [store |-> store, expiry_times |-> expiry_times,
                              now |-> now]]]
    /\ UNCHANGED <<store, expiry_times, now, connected_clients, total_commands,
                   sweeper>>

\* A faulty dispatcher, to test error recovery against: a line it rejects
\* as an unknown command or for its non-integer seconds ends the session.
CountEndsOnError(s) ==
    /\ sess[s].pc = "count"
    /\ total_commands' = sess[s].n + 1
    /\ sess' = [sess EXCEPT ![s] =
                  LET l == Dispatch([sess[s] EXCEPT !.n = 0]) IN
                  IF l.reply \in {UnknownReply(Command(l)), NotIntReply}
                  THEN [l EXCEPT !.pc = "closed"] ELSE l]
    /\ UNCHANGED <<store, expiry_times, now, connected_clients, sweeper, issued>>

\* ... and writes it back incremented; the line is parsed and dispatched.
Count(s) ==
    /\ sess[s].pc = "count"
    /\ total_commands' = sess[s].n + 1
    /\ sess' = [sess EXCEPT ![s] = Dispatch([sess[s] EXCEPT !.n = 0])]
    /\ UNCHANGED <<store, expiry_times, now, connected_clients, sweeper, issued>>

\* _is_expired: key not in self.expiry_times
IsExpiredHas(s) ==
    /\ sess[s].pc = "exp_has"
    /\ sess' = [sess EXCEPT ![s] =
                  IF Has(expiry_times, CurKey(sess[s])) THEN Goto(sess[s], "exp_time")
                  ELSE Return(sess[s], FALSE)]
    /\ UNCHANGED <<store, expiry_times, now, connected_clients, total_commands,
                   sweeper, issued>>

\* _is_expired: time.time()
IsExpiredTime(s) ==
    /\ sess[s].pc = "exp_time"
    /\ sess' = [sess EXCEPT ![s] = [sess[s] EXCEPT !.pc = "exp_cmp", !.t = now]]
    /\ UNCHANGED <<store, expiry_times, now, connected_clients, total_commands,
                   sweeper, issued>>

\* _is_expired: ... > self.expiry_times[key]
IsExpiredCompare(s) ==
    /\ sess[s].pc = "exp_cmp"
    /\ sess' = [sess EXCEPT ![s] =
                  IF Has(expiry_times, CurKey(sess[s]))
                  THEN Return(sess[s], sess[s].t > Lookup(expiry_times, CurKey(sess[s])))
                  ELSE Done(sess[s], KeyErrorReply(CurKey(sess[s])))]
    /\ UNCHANGED <<store, expiry_times, now, connected_clients, total_commands,
                   sweeper, issued>>

IsExpired(s) == IsExpiredHas(s) \/ IsExpiredTime(s) \/ IsExpiredCompare(s)

\* _cmd_set: self.store[key] = value
SetStore(s) ==
    /\ sess[s].pc = "set_store"
    /\ store' = Put(store, CurKey(sess[s]), Join(Tail(Args(sess[s]))))
    /\ sess' = [sess EXCEPT ![s] = Goto(sess[s], "set_has_exp")]
    /\ UNCHANGED <<expiry_times, now, connected_clients, total_commands,
                   sweeper, issued>>

\* _cmd_set: if key in self.expiry_times
SetHasExpiry(s) ==
    /\ sess[s].pc = "set_has_exp"
    /\ sess' = [sess EXCEPT ![s] =
                  IF Has(expiry_times, CurKey(sess[s])) THEN Goto(sess[s], "set_del_exp")
                  ELSE Done(sess[s], OkReply)]
    /\ UNCHANGED <<store, expiry_times, now, connected_clients, total_commands,
                   sweeper, issued>>

\* _cmd_set: del self.expiry_times[key]
SetDelExpiry(s) ==
    /\ sess[s].pc = "set_del_exp"
    /\ expiry_times' = Remove(expiry_times, CurKey(sess[s]))
    /\ sess' = [sess EXCEPT ![s] =
                  IF Has(expiry_times, CurKey(sess[s])) THEN Done(sess[s], OkReply)
                  ELSE Done(sess[s], KeyErrorReply(CurKey(sess[s])))]
    /\ UNCHANGED <<store, now, connected_clients, total_commands, sweeper, issued>>

CmdSet(s) == SetStore(s) \/ SetHasExpiry(s) \/ SetDelExpiry(s)

\* _cmd_get: key not in self.store
GetHas(s) ==
    /\ sess[s].pc = "get_has"
    /\ sess' = [sess EXCEPT ![s] =
                  IF Has(store, CurKey(sess[s])) THEN CallIsExpired(sess[s], "get1")
                  ELSE CallIsExpired(sess[s], "get2")]
    /\ UNCHANGED <<store, expiry_times, now, connected_clients, total_commands,
                   sweeper, issued>>

\* _cmd_get, cleaning up: if key in self.store
GetHasStore(s) ==
    /\ sess[s].pc = "get_has_store"
    /\ sess' = [sess EXCEPT ![s] =
                  IF Has(store, CurKey(sess[s])) THEN Goto(sess[s], "get_del_store")
                  ELSE Goto(sess[s], "get_has_exp")]
    /\ UNCHANGED <<store, expiry_times, now, connected_clients, total_commands,
                   sweeper, issued>>

\* _cmd_get, cleaning up: del self.store[key]
GetDelStore(s) ==
    /\ sess[s].pc = "get_del_store"
    /\ store' = Remove(store, CurKey(sess[s]))
    /\ sess' = [sess EXCEPT ![s] =
                  IF Has(store, CurKey(sess[s])) THEN Goto(sess[s], "get_has_exp")
                  ELSE Done(sess[s], KeyErrorReply(CurKey(sess[s])))]
    /\ UNCHANGED <<expiry_times, now, connected_clients, total_commands,
                   sweeper, issued>>

\* _cmd_get, cleaning up: if key in self.expiry_times
GetHasExpiry(s) ==
    /\ sess[s].pc = "get_has_exp"
    /\ sess' = [sess EXCEPT ![s] =
                  IF Has(expiry_times, CurKey(sess[s])) THEN Goto(sess[s], "get_del_exp")
                  ELSE Done(sess[s], NullReply)]
    /\ UNCHANGED <<store, expiry_times, now, connected_clients, total_commands,
                   sweeper, issued>>

\* A faulty purge, to test GET's clean-up against: the value is removed and
\* the expiry entry is left behind.
GetDelExpiryKept(s) ==
    /\ sess[s].pc = "get_del_exp"
    /\ sess' = [sess EXCEPT ![s] = Done(sess[s], NullReply)]
    /\ UNCHANGED <<store, expiry_times, now, connected_clients, total_commands,
                   sweeper, issued>>

\* _cmd_get, cleaning up: del self.expiry_times[key]
GetDelExpiry(s) ==
    /\ sess[s].pc = "get_del_exp"
    /\ expiry_times' = Remove(expiry_times, CurKey(sess[s]))
    /\ sess' = [sess EXCEPT ![s] =
                  IF Has(expiry_times, CurKey(sess[s])) THEN Done(sess[s], NullReply)
                  ELSE Done(sess[s], KeyErrorReply(CurKey(sess[s])))]
    /\ UNCHANGED <<store, now, connected_clients, total_commands, sweeper, issued>>

\* _cmd_get: value = self.store[key]
GetRead(s) ==
    /\ sess[s].pc = "get_read"
    /\ sess' = [sess EXCEPT ![s] =
                  IF Has(store, CurKey(sess[s]))
                  THEN Done(sess[s], BulkReply(Lookup(store, CurKey(sess[s]))))
                  ELSE Done(sess[s], KeyErrorReply(CurKey(sess[s])))]
    /\ UNCHANGED <<store, expiry_times, now, connected_clients, total_commands,
                   sweeper, issued>>

CmdGet(s) ==
    \/ GetHas(s) \/ GetHasStore(s) \/ GetDelStore(s)
    \/ GetHasExpiry(s) \/ GetDelExpiry(s) \/ GetRead(s)

\* _cmd_del: if key in self.store
DelHasStore(s) ==
    /\ sess[s].pc = "del_has_store"
    /\ sess' = [sess EXCEPT ![s] =
                  IF Has(store, CurKey(sess[s])) THEN Goto(sess[s], "del_store")
                  ELSE Goto(sess[s], "del_has_exp")]
    /\ UNCHANGED <<store, expiry_times, now, connected_clients, total_commands,
                   sweeper, issued>>

\* _cmd_del: del self.store[key]; deleted_count += 1
DelStore(s) ==
    /\ sess[s].pc = "del_store"
    /\ store' = Remove(store, CurKey(sess[s]))
    /\ sess' = [sess EXCEPT ![s] =
                  IF Has(store, CurKey(sess[s]))
                  THEN [sess[s] EXCEPT !.pc = "del_has_exp", !.n = sess[s].n + 1]
                  ELSE Done(sess[s], KeyErrorReply(CurKey(sess[s])))]
    /\ UNCHANGED <<expiry_times, now, connected_clients, total_commands,
                   sweeper, issued>>

\* _cmd_del: if key in self.expiry_times
DelHasExpiry(s) ==
    /\ sess[s].pc = "del_has_exp"
    /\ sess' = [sess EXCEPT ![s] =
                  IF Has(expiry_times, CurKey(sess[s])) THEN Goto(sess[s], "del_exp")
                  ELSE NextArg(sess[s], "del_has_store")]
    /\ UNCHANGED <<store, expiry_times, now, connected_clients, total_commands,
                   sweeper, issued>>

\* A faulty DEL, to test the properties of DEL against: it finds the key's
\* expiry entry and leaves it in place.
DelExpiryKept(s) ==
    /\ sess[s].pc = "del_exp"
    /\ sess' = [sess EXCEPT ![s] = NextArg(sess[s], "del_has_store")]
    /\ UNCHANGED <<store, expiry_times, now, connected_clients, total_commands,
                   sweeper, issued>>

\* _cmd_del: del self.expiry_times[key]
DelExpiry(s) ==
    /\ sess[s].pc = "del_exp"
    /\ expiry_times' = Remove(expiry_times, CurKey(sess[s]))
    /\ sess' = [sess EXCEPT ![s] =
                  IF Has(expiry_times, CurKey(sess[s]))
                  THEN NextArg(sess[s], "del_has_store")
                  ELSE Done(sess[s], KeyErrorReply(CurKey(sess[s])))]
    /\ UNCHANGED <<store, now, connected_clients, total_commands, sweeper, issued>>

CmdDel(s) == DelHasStore(s) \/ DelStore(s) \/ DelHasExpiry(s) \/ DelExpiry(s)

\* _cmd_expire: key not in self.store
ExpireHas(s) ==
    /\ sess[s].pc = "expire_has"
    /\ sess' = [sess EXCEPT ![s] =
                  IF Has(store, CurKey(sess[s])) THEN CallIsExpired(sess[s], "expire")
                  ELSE Done(sess[s], IntReply(0))]
    /\ UNCHANGED <<store, expiry_times, now, connected_clients, total_commands,
                   sweeper, issued>>

\* _cmd_expire: time.time()
ExpireTime(s) ==
    /\ sess[s].pc = "expire_time"
    /\ sess' = [sess EXCEPT ![s] = [sess[s] EXCEPT !.pc = "expire_put", !.t = now]]
    /\ UNCHANGED <<store, expiry_times, now, connected_clients, total_commands,
                   sweeper, issued>>

\* A faulty EXPIRE, to test the properties of EXPIRE against: it stores the
\* seconds as the expiry instant, without adding them to the current time.
ExpirePutAbsolute(s) ==
    /\ sess[s].pc = "expire_put"
    /\ expiry_times' = Put(expiry_times, CurKey(sess[s]),
                           ParseInt(Args(sess[s])[2]) * TicksPerSec)
    /\ sess' = [sess EXCEPT ![s] = Done(sess[s], IntReply(1))]
    /\ UNCHANGED <<store, now, connected_clients, total_commands, sweeper, issued>>

\* _cmd_expire: self.expiry_times[key] = ... + seconds
ExpirePut(s) ==
    /\ sess[s].pc = "expire_put"
    /\ expiry_times' = Put(expiry_times, CurKey(sess[s]),
                           sess[s].t + ParseInt(Args(sess[s])[2]) * TicksPerSec)
    /\ sess' = [sess EXCEPT ![s] = Done(sess[s], IntReply(1))]
    /\ UNCHANGED <<store, now, connected_clients, total_commands, sweeper, issued>>

CmdExpire(s) == ExpireHas(s) \/ ExpireTime(s) \/ ExpirePut(s)

\* _cmd_ttl, _cmd_pttl: key not in self.store
TtlHas(s) ==
    /\ sess[s].pc = "ttl_has"
    /\ sess' = [sess EXCEPT ![s] =
                  IF Has(store, CurKey(sess[s])) THEN CallIsExpired(sess[s], "ttl")
                  ELSE Done(sess[s], IntReply(-2))]
    /\ UNCHANGED <<store, expiry_times, now, connected_clients, total_commands,
                   sweeper, issued>>

\* _cmd_ttl, _cmd_pttl: key not in self.expiry_times
TtlHasExpiry(s) ==
    /\ sess[s].pc = "ttl_has_exp"
    /\ sess' = [sess EXCEPT ![s] =
                  IF Has(expiry_times, CurKey(sess[s])) THEN Goto(sess[s], "ttl_read")
                  ELSE Done(sess[s], IntReply(-1))]
    /\ UNCHANGED <<store, expiry_times, now, connected_clients, total_commands,
                   sweeper, issued>>

\* _cmd_ttl, _cmd_pttl: self.expiry_times[key]
TtlRead(s) ==
    /\ sess[s].pc = "ttl_read"
    /\ sess' = [sess EXCEPT ![s] =
                  IF Has(expiry_times, CurKey(sess[s]))
                  THEN [sess[s] EXCEPT !.pc = "ttl_time",
                                 !.n = Lookup(expiry_times, CurKey(sess[s]))]
                  ELSE Done(sess[s], KeyErrorReply(CurKey(sess[s])))]
    /\ UNCHANGED <<store, expiry_times, now, connected_clients, total_commands,
                   sweeper, issued>>

\* remaining = int(expiry - time.time()); max(0, remaining)
TtlRemaining(expiry, time) ==
    LET remaining == TruncDiv(expiry - time, TicksPerSec) IN
    IF remaining > 0 THEN remaining ELSE 0

\* remaining_ms = int((expiry - time.time()) * 1000); max(0, remaining_ms)
PttlRemaining(expiry, time) ==
    LET remaining_ms == TruncDiv((expiry - time) * 1000, TicksPerSec) IN
    IF remaining_ms > 0 THEN remaining_ms ELSE 0

\* _cmd_ttl, _cmd_pttl: ... - time.time(), and the reply
TtlTime(s) ==
    /\ sess[s].pc = "ttl_time"
    /\ sess' = [sess EXCEPT ![s] =
                  IF Command(sess[s]) = "TTL"
                  THEN Done(sess[s], IntReply(TtlRemaining(sess[s].n, now)))
                  ELSE Done(sess[s], IntReply(PttlRemaining(sess[s].n, now)))]
    /\ UNCHANGED <<store, expiry_times, now, connected_clients, total_commands,
                   sweeper, issued>>

CmdTtl(s) == TtlHas(s) \/ TtlHasExpiry(s) \/ TtlRead(s) \/ TtlTime(s)

\* _cmd_keys: list(self.store.keys())
KeysList(s) ==
    /\ sess[s].pc = "keys_list"
    /\ sess' = [sess EXCEPT ![s] =
                  IF Len(store) = 0 THEN Done(sess[s], ArrayReply(<<>>))
                  ELSE CallIsExpired([sess[s] EXCEPT !.keys = DictKeys(store), !.i = 1],
                                     "keys")]
    /\ UNCHANGED <<store, expiry_times, now, connected_clients, total_commands,
                   sweeper, issued>>

\* _cmd_exists: key in self.store
ExistsHas(s) ==
    /\ sess[s].pc = "exists_has"
    /\ sess' = [sess EXCEPT ![s] =
                  IF Has(store, CurKey(sess[s])) THEN CallIsExpired(sess[s], "exists")
                  ELSE NextArg(sess[s], "exists_has")]
    /\ UNCHANGED <<store, expiry_times, now, connected_clients, total_commands,
                   sweeper, issued>>

\* _cmd_type: key not in self.store
TypeHas(s) ==
    /\ sess[s].pc = "type_has"
    /\ sess' = [sess EXCEPT ![s] =
                  IF Has(store, CurKey(sess[s])) THEN CallIsExpired(sess[s], "type")
                  ELSE Done(sess[s], SimpleReply("none"))]
    /\ UNCHANGED <<store, expiry_times, now, connected_clients, total_commands,
                   sweeper, issued>>

\* _cmd_flushall: self.store.clear()
FlushStore(s) ==
    /\ sess[s].pc = "flush_store"
    /\ store' = <<>>
    /\ sess' = [sess EXCEPT ![s] = Goto(sess[s], "flush_exp")]
    /\ UNCHANGED <<expiry_times, now, connected_clients, total_commands,
                   sweeper, issued>>

\* A faulty FLUSHALL, to test the properties of FLUSHALL against: it clears
\* the value map and leaves the expiry map as it is.
FlushExpiryKept(s) ==
    /\ sess[s].pc = "flush_exp"
    /\ sess' = [sess EXCEPT ![s] = Done(sess[s], OkReply)]
    /\ UNCHANGED <<store, expiry_times, now, connected_clients, total_commands,
                   sweeper, issued>>

\* _cmd_flushall: self.expiry_times.clear()
FlushExpiry(s) ==
    /\ sess[s].pc = "flush_exp"
    /\ expiry_times' = <<>>
    /\ sess' = [sess EXCEPT ![s] = Done(sess[s], OkReply)]
    /\ UNCHANGED <<store, now, connected_clients, total_commands, sweeper, issued>>

CmdFlushAll(s) == FlushStore(s) \/ FlushExpiry(s)

\* _cmd_info: uptime = int(time.time())
InfoTime(s) ==
    /\ sess[s].pc = "info_time"
    /\ sess' = [sess EXCEPT ![s] =
                  [sess[s] EXCEPT !.pc = "info_clients", !.t = TruncDiv(now, TicksPerSec)]]
    /\ UNCHANGED <<store, expiry_times, now, connected_clients, total_commands,
                   sweeper, issued>>

\* _cmd_info: {self.connected_clients}
InfoClients(s) ==
    /\ sess[s].pc = "info_clients"
    /\ sess' = [sess EXCEPT ![s] =
                  [sess[s] EXCEPT !.pc = "info_commands", !.cur = <<connected_clients>>]]
    /\ UNCHANGED <<store, expiry_times, now, connected_clients, total_commands,
                   sweeper, issued>>

\* _cmd_info: {self.total_commands}
InfoCommands(s) ==
    /\ sess[s].pc = "info_commands"
    /\ sess' = [sess EXCEPT ![s] =
                  [sess[s] EXCEPT !.pc = "info_size", !.cur = Append(sess[s].cur, total_commands)]]
    /\ UNCHANGED <<store, expiry_times, now, connected_clients, total_commands,
                   sweeper, issued>>

\* _cmd_info: {len(self.store)}
InfoSize(s) ==
    /\ sess[s].pc = "info_size"
    /\ sess' = [sess EXCEPT ![s] =
                  [sess[s] EXCEPT !.pc = "info_connections", !.cur = Append(sess[s].cur, Len(store))]]
    /\ UNCHANGED <<store, expiry_times, now, connected_clients, total_commands,
                   sweeper, issued>>

\* _cmd_info: {self.total_commands} again, and the reply
InfoConnections(s) ==
    /\ sess[s].pc = "info_connections"
    /\ sess' = [sess EXCEPT ![s] =
                  Done(sess[s], BulkReply(InfoText(sess[s].t, sess[s].cur[1], sess[s].cur[2], sess[s].cur[3],
                                             total_commands)))]
    /\ UNCHANGED <<store, expiry_times, now, connected_clients, total_commands,
                   sweeper, issued>>

CmdInfo(s) ==
    \/ InfoTime(s) \/ InfoClients(s) \/ InfoCommands(s)
    \/ InfoSize(s) \/ InfoConnections(s)

\* ------------------------------------------------- the connection's bytes
\* bytes.decode('utf-8'): a byte below 0x80 is its character; the bytes 0xC3
\* 0xA9 together are one character; a lead byte without its continuation
\* byte, or a continuation byte alone, raises UnicodeDecodeError.
LeadByte == "C3"

ContinuationByte == "A9"

RECURSIVE Utf8Valid(_)
Utf8Valid(bytes) ==
    IF Len(bytes) = 0 THEN TRUE
    ELSE IF bytes[1] = LeadByte
    THEN Len(bytes) >= 2 /\ bytes[2] = ContinuationByte
         /\ Utf8Valid(SubSeq(bytes, 3, Len(bytes)))
    ELSE bytes[1] # ContinuationByte /\ Utf8Valid(Tail(bytes))

RECURSIVE Utf8Decode(_)
Utf8Decode(bytes) ==
    IF Len(bytes) = 0 THEN <<>>
    ELSE IF bytes[1] = LeadByte
    THEN <<"é">> \o Utf8Decode(SubSeq(bytes, 3, Len(bytes)))
    ELSE <<bytes[1]>> \o Utf8Decode(Tail(bytes))

\* '\n' in buffer
HasLine(buffer) == \E j \in 1..Len(buffer) : buffer[j] = "\n"

\* line, buffer = buffer.split('\n', 1)
FirstLine(buffer) ==
    SubSeq(buffer, 1, (CHOOSE j \in 1..Len(buffer) :
                         buffer[j] = "\n" /\ \A h \in 1..(j - 1) : buffer[h] # "\n") - 1)

AfterFirstLine(buffer) == SubSeq(buffer, Len(FirstLine(buffer)) + 2, Len(buffer))

Whitespace == {" ", "\r", "\t"}

\* line.strip() and command_line.split(): the words between runs of
\* whitespace; word is the word being read.
RECURSIVE Words(_, _)
Words(chars, word) ==
    IF Len(chars) = 0 THEN (IF word = "" THEN <<>> ELSE <<word>>)
    ELSE IF chars[1] \in Whitespace
    THEN (IF word = "" THEN <<>> ELSE <<word>>) \o Words(Tail(chars), "")
    ELSE Words(Tail(chars), word \o chars[1])

\* recv(1024).decode('utf-8') returns some of the bytes the client has sent;
\* buffer += data.  A chunk that does not decode raises, which ends the
\* session: the finally clause reads the connected-clients counter.
Read(s) ==
    /\ sess[s].pc = "recv"
    /\ ~HasLine(sess[s].buffer)
    /\ \E n \in 1..Len(sess[s].input) :
         LET data == SubSeq(sess[s].input, 1, n)
             rest == SubSeq(sess[s].input, n + 1, Len(sess[s].input))
         IN sess' = [sess EXCEPT ![s] =
                       IF Utf8Valid(data)
                       THEN [sess[s] EXCEPT
                               !.input = rest,
                               !.buffer = sess[s].buffer \o Utf8Decode(data)]
                       ELSE [sess[s] EXCEPT !.input = rest, !.pc = "disconnect",
                                            !.n = connected_clients]]
    /\ UNCHANGED <<store, expiry_times, now, connected_clients, total_commands,
                   sweeper, issued>>

\* while '\n' in buffer: the next line is taken from the buffer; an empty
\* line is skipped, any other enters _process_command, which reads the
\* total-commands counter.
NextLine(s) ==
    /\ sess[s].pc = "recv"
    /\ HasLine(sess[s].buffer)
    /\ LET command_line == Words(FirstLine(sess[s].buffer), "")
           l == [sess[s] EXCEPT !.buffer = AfterFirstLine(sess[s].buffer)]
       IN IF command_line = <<>>
          THEN /\ sess' = [sess EXCEPT ![s] = l]
               /\ UNCHANGED issued
          ELSE /\ issued' = issued + 1
               /\ sess' = [sess EXCEPT ![s] =
                             [l EXCEPT
                                !.pc = "count", !.n = total_commands,
                                !.line = command_line, !.reply = "",
                                !.prev = sess[s].line,
                                !.prevReply = sess[s].reply,
                                !.out = IF sess[s].line = <<>> THEN sess[s].out
                                        ELSE Append(sess[s].out, sess[s].reply),
                                !.pre = [store |-> store,
                                         expiry_times |-> expiry_times,
                                         now |-> now]]]
    /\ UNCHANGED <<store, expiry_times, now, connected_clients, total_commands,
                   sweeper>>

\* The session leaves its loop (the peer closed, a socket error, the server
\* stopped); finally: self.connected_clients -= 1 reads the counter ...
Disconnect(s) ==
    /\ sess[s].pc = "recv"
    /\ ~HasLine(sess[s].buffer)
    /\ sess' = [sess EXCEPT ![s] =
                  [sess[s] EXCEPT !.pc = "disconnect", !.n = connected_clients]]
    /\ UNCHANGED <<store, expiry_times, now, connected_clients, total_commands,
                   sweeper, issued>>

\* ... and writes it back decremented; the socket is closed.
DisconnectStore(s) ==
    /\ sess[s].pc = "disconnect"
    /\ connected_clients' = sess[s].n - 1
    /\ sess' = [sess EXCEPT ![s] = [sess[s] EXCEPT !.pc = "closed", !.n = 0]]
    /\ UNCHANGED <<store, expiry_times, now, total_commands, sweeper, issued>>

\* ---------------------------------------------------------------- sweeper
\* _cleanup_expired_keys: current_time = time.time()
SweepTime ==
    /\ sweeper.pc = "time"
    /\ sweeper' = [sweeper EXCEPT !.pc = "iter", !.current_time = now]
    /\ UNCHANGED <<store, expiry_times, now, connected_clients, total_commands,
                   sess, issued>>

\* self.expiry_times.items(): the iterator remembers the dictionary's size.
SweepIter ==
    /\ sweeper.pc = "iter"
    /\ sweeper' = [sweeper EXCEPT !.pc = "next", !.used = Len(expiry_times)]
    /\ UNCHANGED <<store, expiry_times, now, connected_clients, total_commands,
                   sess, issued>>

\* The cycle is over (or raised, and the except clause absorbed it): sleep.
SweepSleep == SweeperRest

\* One step of the comprehension: RuntimeError if the dictionary changed
\* size; else the next item is tested, or the items are exhausted.
SweepNext ==
    /\ sweeper.pc = "next"
    /\ sweeper' =
         IF Len(expiry_times) # sweeper.used THEN SweepSleep
         ELSE IF sweeper.pos < Len(expiry_times) THEN
           LET item == expiry_times[sweeper.pos + 1] IN
           [sweeper EXCEPT
              !.pos = @ + 1,
              !.expired_keys = IF sweeper.current_time > item[2]
                               THEN Append(@, item[1]) ELSE @]
         ELSE IF Len(sweeper.expired_keys) = 0 THEN SweepSleep
         ELSE [sweeper EXCEPT !.pc = "has_store", !.i = 1,
                              !.current_time = 0, !.used = 0, !.pos = 0]
    /\ UNCHANGED <<store, expiry_times, now, connected_clients, total_commands,
                   sess, issued>>

SweepKey == sweeper.expired_keys[sweeper.i]

\* if key in self.store
SweepHasStore ==
    /\ sweeper.pc = "has_store"
    /\ sweeper' = [sweeper EXCEPT !.pc = IF Has(store, SweepKey) THEN "del_store"
                                         ELSE "has_exp"]
    /\ UNCHANGED <<store, expiry_times, now, connected_clients, total_commands,
                   sess, issued>>

\* del self.store[key]
SweepDelStore ==
    /\ sweeper.pc = "del_store"
    /\ store' = Remove(store, SweepKey)
    /\ sweeper' = IF Has(store, SweepKey) THEN [sweeper EXCEPT !.pc = "has_exp"]
                  ELSE SweepSleep
    /\ UNCHANGED <<expiry_times, now, connected_clients, total_commands,
                   sess, issued>>

\* After the last statement of one pass of `for key in expired_keys`.
SweepNextKey ==
    IF sweeper.i < Len(sweeper.expired_keys)
    THEN [sweeper EXCEPT !.pc = "has_store", !.i = @ + 1]
    ELSE SweepSleep

\* if key in self.expiry_times
SweepHasExpiry ==
    /\ sweeper.pc = "has_exp"
    /\ sweeper' = IF Has(expiry_times, SweepKey)
                  THEN [sweeper EXCEPT !.pc = "del_exp"]
                  ELSE SweepNextKey
    /\ UNCHANGED <<store, expiry_times, now, connected_clients, total_commands,
                   sess, issued>>

\* del self.expiry_times[key]
SweepDelExpiry ==
    /\ sweeper.pc = "del_exp"
    /\ expiry_times' = Remove(expiry_times, SweepKey)
    /\ sweeper' = IF Has(expiry_times, SweepKey) THEN SweepNextKey
                  ELSE SweepSleep
    /\ UNCHANGED <<store, now, connected_clients, total_commands, sess, issued>>

Sweeper ==
    \/ SweepTime \/ SweepIter \/ SweepNext
    \/ SweepHasStore \/ SweepDelStore \/ SweepHasExpiry \/ SweepDelExpiry

\* ------------------------------------------------------------------ clock
Tick ==
    /\ now < MaxTime
    /\ now' = now + 1
    /\ UNCHANGED <<store, expiry_times, connected_clients, total_commands,
                   sess, sweeper, issued>>

\* ------------------------------------------------------------ client input
\* The command lines clients send: every command well-formed, in either case,
\* on one or two keys, and every way the dispatcher can reject a line.
WellFormed ==
    {<<"SET", "k1", "v1">>, <<"SET", "k1", "v2">>, <<"SET", "k2", "v1">>,
     <<"set", "k1", "v1", "v2">>,
     <<"GET", "k1">>, <<"get", "k2">>,
     <<"DEL", "k1">>, <<"DEL", "k1", "k2">>,
     <<"EXPIRE", "k1", "-1">>, <<"EXPIRE", "k1", "0">>, <<"EXPIRE", "k1", "1">>,
     <<"TTL", "k1">>, <<"PTTL", "k1">>,
     <<"EXISTS", "k1">>, <<"EXISTS", "k1", "k2">>,
     <<"TYPE", "k1">>,
     <<"PING">>, <<"ECHO", "v1", "v2">>, <<"KEYS", "*">>,
     <<"FLUSHALL">>, <<"INFO">>}

\* Lines whose argument count is not the one the command takes.
WrongArity ==
    {<<"SET", "k1">>, <<"GET">>, <<"GET", "k1", "k2">>, <<"DEL">>,
     <<"EXPIRE", "k1">>, <<"TTL">>, <<"PTTL", "k1", "k2">>,
     <<"EXISTS">>, <<"TYPE">>, <<"PING", "k1">>, <<"FLUSHALL", "k1">>,
     <<"INFO", "k1">>}

Malformed == WrongArity \cup {<<"EXPIRE", "k1", "soon">>, <<"FOO", "k1">>}

Lines == WellFormed \cup Malformed

\* ---------------------------------------------------------- specifications
Handlers(s) ==
    \/ Count(s) \/ IsExpired(s)
    \/ CmdSet(s) \/ CmdGet(s) \/ CmdDel(s) \/ CmdExpire(s) \/ CmdTtl(s)
    \/ KeysList(s) \/ ExistsHas(s) \/ TypeHas(s) \/ CmdFlushAll(s) \/ CmdInfo(s)

Session(s) ==
    \/ Connect(s) \/ ConnectStore(s)
    \/ \E line \in Lines : Recv(s, line, MaxCmds)
    \/ Handlers(s)

\* The server: every client thread, the cleanup thread and the clock, their
\* steps interleaved in any order.
Next ==
    \/ \E s \in Sessions : Session(s) \/ Disconnect(s) \/ DisconnectStore(s)
    \/ Sweeper
    \/ Tick

Spec == Init /\ [][Next]_vars

\* A thread is at rest between two command lines (a client thread) or
\* between two cleanup cycles (the cleanup thread).
AtRest(s) == sess[s].pc \in {"new", "recv"}

SweeperAtRest == sweeper.pc = "time"

\* The server with one client, when no thread is preempted inside a command
\* or inside a cleanup cycle: each command and each cycle runs to its end
\* before another thread runs.  Only the clock advances at any time.
NextSerial ==
    \/ SweeperAtRest /\ Session(1)
    \/ AtRest(1) /\ Sweeper
    \/ Tick

SpecSerial == Init /\ [][NextSerial]_vars

\* The server with one client whose commands interleave freely with the
\* cleanup thread.  The client works on one key.
SweepLines ==
    {<<"SET", "k1", "v1">>, <<"EXPIRE", "k1", "0">>, <<"GET", "k1">>,
     <<"TTL", "k1">>, <<"EXISTS", "k1">>, <<"TYPE", "k1">>, <<"KEYS", "*">>,
     <<"FLUSHALL">>, <<"INFO">>}

NextSweep ==
    \/ Connect(1) \/ ConnectStore(1)
    \/ \E line \in SweepLines : Recv(1, line, MaxSweepCmds)
    \/ Count(1) \/ IsExpired(1)
    \/ CmdSet(1) \/ CmdGet(1) \/ CmdExpire(1) \/ CmdTtl(1)
    \/ KeysList(1) \/ ExistsHas(1) \/ TypeHas(1) \/ CmdFlushAll(1) \/ CmdInfo(1)
    \/ Sweeper
    \/ Tick

SpecSweep == Init /\ [][NextSweep]_vars

\* The server with all its clients interleaving freely on one key while the
\* cleanup thread sleeps.
RaceLines ==
    {<<"SET", "k1", "v1">>, <<"GET", "k1">>, <<"DEL", "k1">>,
     <<"EXPIRE", "k1", "1">>, <<"TTL", "k1">>, <<"FLUSHALL">>}

NextRace ==
    \/ \E s \in Sessions :
         \/ Connect(s) \/ ConnectStore(s)
         \/ \E line \in RaceLines : Recv(s, line, MaxCmds)
         \/ Count(s) \/ IsExpired(s)
         \/ CmdSet(s) \/ CmdGet(s) \/ CmdDel(s) \/ CmdExpire(s) \/ CmdTtl(s)
         \/ CmdFlushAll(s)
    \/ Tick

SpecRace == Init /\ [][NextRace]_vars

\* The server with one client, followed byte by byte: the client sends one
\* of ByteStreams, which reaches the server in reads of any sizes; then the
\* client closes the connection.
ByteStreams ==
    {<<"S", "E", "T", " ", "k", "1", " ", "v", "1", "\n", "G", "E", "T", " ", "k", "1", "\n">>,
     <<"S", "E", "T", " ", "k", "1", " ", "C3", "A9", "\n", "G", "E", "T", " ", "k", "1", "\n">>,
     <<"S", "E", "T", " ", "k", "1", " ", "v", "1", "\r", "\n", "\r", "\n", "G", "E", "T", " ", "k", "1">>,
     <<" ", "g", "e", "t", " ", " ", "k", "1", "\r", "\n">>}

InitStream ==
    /\ store = <<>>
    /\ expiry_times = <<>>
    /\ now = 0
    /\ connected_clients = 0
    /\ total_commands = 0
    /\ \E bytes \in ByteStreams :
         sess = [s \in Sessions |->
                   IF s = 1 THEN [NewSession EXCEPT !.stream = bytes, !.input = bytes]
                   ELSE NewSession]
    /\ sweeper = SweeperRest
    /\ issued = 0

NextStream ==
    \/ Connect(1) \/ ConnectStore(1)
    \/ Read(1) \/ NextLine(1)
    \/ Count(1)
    \/ SetStore(1) \/ SetHasExpiry(1)
    \/ GetHas(1) \/ IsExpiredHas(1) \/ GetRead(1)
    \/ sess[1].input = <<>> /\ Disconnect(1)
    \/ DisconnectStore(1)

SpecStream == InitStream /\ [][NextStream]_vars

\* The same, with the cleanup thread scheduled fairly: as a running thread
\* it is not kept from its next step forever.
SpecSweepFair == SpecSweep /\ WF_vars(Sweeper)

\* The server with all its clients and the cleanup thread interleaving
\* freely, each client issuing SET, GET and DEL on a key of its own.  No
\* key gets an expiry, so the clock, which nothing compares, stands still.
OwnKey(s) == "k" \o ToString(s)

OwnLines(s) ==
    {<<"SET", OwnKey(s), "v1">>, <<"SET", OwnKey(s), "v2">>,
     <<"GET", OwnKey(s)>>, <<"DEL", OwnKey(s)>>}

NextDisjoint ==
    \/ \E s \in Sessions :
         \/ Connect(s) \/ ConnectStore(s)
         \/ \E line \in OwnLines(s) : Recv(s, line, MaxCmds)
         \/ Count(s)
         \/ SetStore(s) \/ SetHasExpiry(s)
         \/ GetHas(s) \/ IsExpiredHas(s) \/ GetRead(s)
         \/ DelHasStore(s) \/ DelStore(s) \/ DelHasExpiry(s)
    \/ SweepTime \/ SweepIter \/ SweepNext

SpecDisjoint == Init /\ [][NextDisjoint]_vars

\* The server with all its clients connecting, asking for INFO and
\* disconnecting, interleaved freely.
ConnLines == {<<"PING">>, <<"INFO">>}

NextConn ==
    \E s \in Sessions :
      \/ Connect(s) \/ ConnectStore(s)
      \/ \E line \in ConnLines : Recv(s, line, MaxCmds)
      \/ Count(s) \/ CmdInfo(s)
      \/ Disconnect(s) \/ DisconnectStore(s)

SpecConn == Init /\ [][NextConn]_vars

\* The server with one client that writes two keys, lets one expire and
\* reads, while the cleanup thread sleeps.
ReadLines ==
    {<<"SET", "k1", "v1">>, <<"SET", "k2", "v1">>, <<"EXPIRE", "k1", "0">>,
     <<"GET", "k1">>, <<"GET", "k2">>, <<"TTL", "k1">>, <<"PTTL", "k1">>,
     <<"EXISTS", "k1", "k2">>, <<"TYPE", "k1">>, <<"KEYS", "*">>,
     <<"INFO">>, <<"PING">>, <<"ECHO", "v1", "v2">>}

NextReads ==
    \/ Connect(1) \/ ConnectStore(1)
    \/ \E line \in ReadLines : Recv(1, line, MaxReadCmds)
    \/ Count(1) \/ IsExpired(1)
    \/ CmdSet(1) \/ CmdGet(1) \/ CmdExpire(1) \/ CmdTtl(1)
    \/ KeysList(1) \/ ExistsHas(1) \/ TypeHas(1) \/ CmdInfo(1)
    \/ Tick

SpecReads == Init /\ [][NextReads]_vars

\* --------------------------------------------------------------- properties
Keys == {"k1", "k2"}

Values == {"v1", "v2", "v1 v2"}

KeyLists == {<<>>, <<"k1">>, <<"k2">>, <<"k1", "k2">>, <<"k2", "k1">>}

Range(seq) == {seq[j] : j \in 1..Len(seq)}

\* In the maps m, the clock reading t is past k's expiry instant ...
Passed(m, k, t) == Has(m.expiry_times, k) /\ Lookup(m.expiry_times, k) < t

\* ... or at or past it.
Reached(m, k, t) == Has(m.expiry_times, k) /\ Lookup(m.expiry_times, k) <= t

\* Session s holds the reply to its command line `line` ...
Replied(s) == sess[s].pc = "recv" /\ sess[s].line # <<>>

\* ... and the step in which that reply is sent.
Replies(s) == sess[s].pc # "recv" /\ sess'[s].pc = "recv" /\ sess'[s].line # <<>>

\* l.line is the command cmd on the single key k.
OnKey(l, cmd, k) == Len(l.line) = 2 /\ Upper(l.line[1]) = cmd /\ l.line[2] = k

\* C1: in a session, a GET k that directly follows a SET k v answered OK
\* returns v, and a TTL k that directly follows it returns -1, whatever the
\* store held before and whatever the cleanup thread does meanwhile.
C1_SetThenRead ==
    \A s \in Sessions :
      LET l == sess[s] IN
      ( /\ Replied(s)
        /\ Len(l.prev) >= 3 /\ Upper(l.prev[1]) = "SET" /\ l.prevReply = OkReply )
      => /\ OnKey(l, "GET", l.prev[2])
              => l.reply = BulkReply(Join(SubSeq(l.prev, 3, Len(l.prev))))
         /\ OnKey(l, "TTL", l.prev[2]) => l.reply = IntReply(-1)

\* The reply of l reports the key k as live.
ReportsLive(l, k) ==
    \/ OnKey(l, "GET", k) /\ l.reply \in {BulkReply(v) : v \in Values}
    \/ /\ Len(l.line) >= 2 /\ Upper(l.line[1]) = "EXISTS" /\ Range(Args(l)) = {k}
       /\ l.reply \in {IntReply(n) : n \in 1..Len(Args(l))}
    \/ OnKey(l, "TYPE", k) /\ l.reply = SimpleReply("string")
    \/ (OnKey(l, "TTL", k) \/ OnKey(l, "PTTL", k)) /\ l.reply # IntReply(-2)
    \/ /\ Upper(l.line[1]) = "KEYS"
       /\ \E ks \in KeyLists : k \in Range(ks) /\ l.reply = ArrayReply(ks)

\* C2: a key whose expiry instant had already passed when a read command was
\* received is not reported live by that command: GET is null, EXISTS does
\* not count it, TYPE is none, TTL and PTTL are -2, KEYS does not list it.
C2_ExpiredNeverLive ==
    \A s \in Sessions : \A k \in Keys :
      (Replied(s) /\ Passed(sess[s].pre, k, sess[s].pre.now))
      => ~ReportsLive(sess[s], k)

\* What a command line does when its handler runs alone, from the maps m at
\* the clock reading t: the maps it leaves and its reply.
RECURSIVE DelAll(_, _, _)
DelAll(ks, m, count) ==
    IF Len(ks) = 0
    THEN [store |-> m.store, expiry_times |-> m.expiry_times,
          reply |-> IntReply(count)]
    ELSE DelAll(Tail(ks),
                [store |-> Remove(m.store, ks[1]),
                 expiry_times |-> Remove(m.expiry_times, ks[1])],
                IF Has(m.store, ks[1]) THEN count + 1 ELSE count)

Atomic(line, m, t) ==
    LET cmd == Upper(line[1])
        k == line[2]
        same(reply) == [store |-> m.store, expiry_times |-> m.expiry_times,
                        reply |-> reply]
        gone == ~Has(m.store, k) \/ Passed(m, k, t)
    IN
    CASE cmd = "SET" ->
           [store |-> Put(m.store, k, Join(SubSeq(line, 3, Len(line)))),
            expiry_times |-> Remove(m.expiry_times, k),
            reply |-> OkReply]
      [] cmd = "GET" ->
           IF ~Has(m.store, k) THEN same(NullReply)
           ELSE IF Passed(m, k, t)
           THEN [store |-> Remove(m.store, k),
                 expiry_times |-> Remove(m.expiry_times, k),
                 reply |-> NullReply]
           ELSE same(BulkReply(Lookup(m.store, k)))
      [] cmd = "DEL" -> DelAll(Tail(line), m, 0)
      [] cmd = "EXPIRE" ->
           IF gone THEN same(IntReply(0))
           ELSE [store |-> m.store,
                 expiry_times |-> Put(m.expiry_times, k,
                                      t + ParseInt(line[3]) * TicksPerSec),
                 reply |-> IntReply(1)]
      [] cmd = "TTL" ->
           IF gone THEN same(IntReply(-2))
           ELSE IF ~Has(m.expiry_times, k) THEN same(IntReply(-1))
           ELSE same(IntReply(TtlRemaining(Lookup(m.expiry_times, k), t)))
      [] cmd = "FLUSHALL" ->
           [store |-> <<>>, expiry_times |-> <<>>, reply |-> OkReply]

AtomicLine(line) ==
    \/ Len(line) >= 3 /\ Upper(line[1]) = "SET"
    \/ Len(line) = 2 /\ Upper(line[1]) \in {"GET", "TTL"}
    \/ Len(line) >= 2 /\ Upper(line[1]) = "DEL"
    \/ Len(line) = 3 /\ Upper(line[1]) = "EXPIRE" /\ IsInt(line[3])
    \/ Len(line) = 1 /\ Upper(line[1]) = "FLUSHALL"

\* Atomic is what the handlers do: a command that runs with no other thread's
\* step inside it, and at one clock reading, leaves the maps and the reply
\* Atomic gives.  (Holds under SpecSerial.)
AtomicAgrees ==
    [][\A s \in Sessions :
         LET l == sess'[s] IN
         (Replies(s) /\ AtomicLine(l.line) /\ l.pre.now = now')
         => [store |-> store', expiry_times |-> expiry_times', reply |-> l.reply]
              = Atomic(l.line, l.pre, now')]_vars

\* The orders in which the sessions of S can run one after the other.
SerialOrders(S) ==
    {o \in [1..Cardinality(S) -> S] : \A i, j \in DOMAIN o : i # j => o[i] # o[j]}

\* The commands of the sessions o[i], o[i+1], ... run alone one after the
\* other at clock reading 0, from the maps of m.
RECURSIVE RunSerial(_, _, _)
RunSerial(o, i, m) ==
    IF i > Len(o) THEN m
    ELSE LET r == Atomic(sess[o[i]].line, m, 0) IN
         RunSerial(o, i + 1,
                   [store |-> r.store, expiry_times |-> r.expiry_times,
                    replies |-> [m.replies EXCEPT ![o[i]] = r.reply]])

\* C3: when sessions have each run one of SET, GET, DEL, EXPIRE, TTL and
\* FLUSHALL on the same key, interleaved in any way from the empty store
\* within one clock reading, the replies and the final value map and expiry
\* map are those of the commands run one after the other in some order.
C3_Serializable ==
    LET ran == {s \in Sessions : sess[s].line # <<>>} IN
    ( /\ now = 0 /\ ran # {}
      /\ \A s \in Sessions : AtRest(s) /\ sess[s].prev = <<>> )
    => \E o \in SerialOrders(ran) :
         LET f == RunSerial(o, 1, [store |-> <<>>, expiry_times |-> <<>>,
                                   replies |-> [s \in Sessions |-> ""]])
         IN /\ f.store = store
            /\ f.expiry_times = expiry_times
            /\ \A s \in ran : f.replies[s] = sess[s].reply

\* l.prev is an EXPIRE of a key with seconds <= 0 that replied 1.
ExpiredByCommand(l) ==
    /\ Len(l.prev) = 3 /\ Upper(l.prev[1]) = "EXPIRE"
    /\ IsInt(l.prev[3]) /\ ParseInt(l.prev[3]) <= 0
    /\ l.prevReply = IntReply(1)

\* C4: after EXPIRE k s with s <= 0 (s = 0 included) replied 1, the
\* session's next GET k returns null and its next EXISTS k returns 0,
\* however soon after the EXPIRE it comes.
C4_NonPositiveExpireRemoves ==
    \A s \in Sessions :
      LET l == sess[s] IN
      (Replied(s) /\ ExpiredByCommand(l))
      => /\ OnKey(l, "GET", l.prev[2]) => l.reply = NullReply
         /\ OnKey(l, "EXISTS", l.prev[2]) => l.reply = IntReply(0)

\* C5: DEL k1..kn, run within one clock reading, returns the number of its
\* argument keys that were in the value map with no expiry instant already
\* passed; a key still stored whose expiry has passed counts 0.
C5_DelCountsLiveKeys ==
    \A s \in Sessions :
      LET l == sess[s] IN
      ( /\ Replied(s) /\ Len(l.line) >= 2 /\ Upper(l.line[1]) = "DEL"
        /\ l.pre.now = now )
      => l.reply = IntReply(Cardinality(
                     {k \in Range(Args(l)) :
                        Has(l.pre.store, k) /\ ~Passed(l.pre, k, l.pre.now)}))

\* C6: with no other thread's step inside a command, DEL k of a key k that
\* is stored and whose expiry has not passed returns 1 and leaves k in
\* neither map; a DEL k that directly follows a DEL k returns 0 and leaves
\* both maps as they were; a GET k, EXISTS k or TYPE k that directly follows
\* a DEL k returns null, 0 and none.
C6_DelIdempotent ==
    [][\A s \in Sessions :
         LET l == sess'[s] IN
         (Replies(s) /\ Len(l.line) = 2)
         => LET k == l.line[2] IN
            /\ ( /\ Upper(l.line[1]) = "DEL"
                 /\ Has(l.pre.store, k) /\ ~Passed(l.pre, k, l.pre.now) )
               => /\ l.reply = IntReply(1)
                  /\ ~Has(store', k) /\ ~Has(expiry_times', k)
            /\ OnKey([line |-> l.prev], "DEL", k)
               => /\ Upper(l.line[1]) = "DEL"
                       => /\ l.reply = IntReply(0)
                          /\ store' = l.pre.store
                          /\ expiry_times' = l.pre.expiry_times
                  /\ Upper(l.line[1]) = "GET" => l.reply = NullReply
                  /\ Upper(l.line[1]) = "EXISTS" => l.reply = IntReply(0)
                  /\ Upper(l.line[1]) = "TYPE" => l.reply = SimpleReply("none")]_vars

\* A DEL k1 that removed the key and its expiry was followed by a DEL k1
\* that returned 0.
C6_Witness ==
    \E s \in Sessions :
      /\ Replied(s)
      /\ sess[s].prev = <<"DEL", "k1">> /\ sess[s].prevReply = IntReply(1)
      /\ sess[s].line = <<"DEL", "k1">> /\ sess[s].reply = IntReply(0)

\* C7: TTL and PTTL of k, run within one clock reading, reply -2 exactly when
\* k is absent or its expiry instant is reached (the seconds given to EXPIRE
\* have elapsed, or more), -1 exactly when k is stored with no expiry, and
\* otherwise a non-negative number no larger than the time that remains.
C7_TtlReplies ==
    \A s \in Sessions :
      LET l == sess[s] IN
      ( /\ Replied(s) /\ (OnKey(l, "TTL", l.line[2]) \/ OnKey(l, "PTTL", l.line[2]))
        /\ l.pre.now = now )
      => LET k == l.line[2]
             gone == ~Has(l.pre.store, k) \/ Reached(l.pre, k, now)
             permanent == Has(l.pre.store, k) /\ ~Has(l.pre.expiry_times, k)
             perSec == IF Upper(l.line[1]) = "TTL" THEN 1 ELSE 1000
         IN /\ (l.reply = IntReply(-2)) <=> gone
            /\ (l.reply = IntReply(-1)) <=> permanent
            /\ (~gone /\ ~permanent)
               => \E n \in 0..(MaxTime + 2 * TicksPerSec) * 1000 :
                    /\ l.reply = IntReply(n)
                    /\ n * TicksPerSec
                         <= (Lookup(l.pre.expiry_times, k) - now) * perSec

\* l.line is a well-formed EXPIRE.
ExpireLine(l) == Len(l.line) = 3 /\ Upper(l.line[1]) = "EXPIRE" /\ IsInt(l.line[3])

InfoReplies(size) ==
    {BulkReply(InfoText(uptime, clients, commands, size, connections)) :
       uptime \in 0..MaxTime, clients \in 0..NumSessions,
       commands \in 0..MaxSweepCmds, connections \in 0..MaxSweepCmds}

\* C9: once FLUSHALL has replied, the value map and the expiry map are
\* empty, whatever the cleanup thread does meanwhile; a KEYS that directly
\* follows it returns the empty array, an INFO that directly follows it
\* reports 0 entries, and a key SET directly after it has no expiry.
C9_FlushAllEmpties ==
    \A s \in Sessions :
      LET l == sess[s] IN
      Replied(s)
      => /\ (Upper(l.line[1]) = "FLUSHALL" /\ l.reply = OkReply)
            => store = <<>> /\ expiry_times = <<>>
         /\ (l.prev # <<>> /\ Upper(l.prev[1]) = "FLUSHALL" /\ l.prevReply = OkReply)
            => /\ Upper(l.line[1]) = "KEYS" => l.reply = ArrayReply(<<>>)
               /\ Upper(l.line[1]) = "INFO" => l.reply \in InfoReplies(0)
               /\ (Upper(l.line[1]) = "SET" /\ Len(l.line) >= 3)
                  => ~Has(expiry_times, l.line[2])

\* FLUSHALL replied after being received with a key stored and an expiry set.
C9_Witness ==
    \E s \in Sessions :
      /\ Replied(s)
      /\ sess[s].line = <<"FLUSHALL">> /\ sess[s].reply = OkReply
      /\ Has(sess[s].pre.store, "k1") /\ Has(sess[s].pre.expiry_times, "k1")
      /\ store = <<>> /\ expiry_times = <<>>

\* The command table: the numbers of arguments a command takes.
ArityOk(cmd, n) ==
    CASE cmd = "SET" -> n >= 2
      [] cmd \in {"GET", "TTL", "PTTL", "TYPE"} -> n = 1
      [] cmd \in {"DEL", "EXISTS"} -> n >= 1
      [] cmd = "EXPIRE" -> n = 2
      [] cmd \in {"PING", "FLUSHALL", "INFO"} -> n = 0
      [] OTHER -> TRUE

Lower(cmd) ==
    CASE cmd = "SET" -> "set"
      [] cmd = "GET" -> "get"
      [] cmd = "DEL" -> "del"
      [] cmd = "EXPIRE" -> "expire"
      [] cmd = "TTL" -> "ttl"
      [] cmd = "PTTL" -> "pttl"
      [] cmd = "PING" -> "ping"
      [] cmd = "EXISTS" -> "exists"
      [] cmd = "TYPE" -> "type"
      [] cmd = "FLUSHALL" -> "flushall"
      [] cmd = "INFO" -> "info"
      [] OTHER -> cmd

\* C10: a command line whose number of arguments is not one its command
\* takes (PING, FLUSHALL and INFO take none) is answered with the command's
\* 'wrong number of arguments' error and leaves both maps as they were.
C10_ArityRejected ==
    [][\A s \in Sessions :
         LET l == sess'[s] IN
         (Replies(s) /\ ~ArityOk(Command(l), Len(Args(l))))
         => /\ l.reply = ArityError(Lower(Command(l)))
            /\ store' = l.pre.store
            /\ expiry_times' = l.pre.expiry_times]_vars

KnownCommands ==
    {"SET", "GET", "DEL", "EXPIRE", "TTL", "PTTL", "PING", "ECHO", "KEYS",
     "EXISTS", "TYPE", "FLUSHALL", "INFO"}

\* A line with an unknown command name, or an EXPIRE with non-integer seconds.
RejectedLine(line) ==
    /\ line # <<>>
    /\ \/ Upper(line[1]) \notin KnownCommands
       \/ Upper(line[1]) = "EXPIRE" /\ Len(line) = 3 /\ ~IsInt(line[3])

\* C11: a line with an unknown command name, or an EXPIRE whose seconds are
\* not an integer, is answered with its error reply, leaves both maps as
\* they are and leaves the session waiting for its next line; the line that
\* follows it in the session does what it does when it runs alone.
C11_ErrorsRecovered ==
    [][\A s \in Sessions :
         /\ ( /\ sess[s].pc = "count" /\ RejectedLine(sess[s].line)
              /\ sess'[s] # sess[s] )
            => /\ sess'[s].pc = "recv"
               /\ sess'[s].reply =
                    IF Upper(sess[s].line[1]) \in KnownCommands
                    THEN "-ERR value is not an integer or out of range\r\n"
                    ELSE "-ERR unknown command '" \o Upper(sess[s].line[1]) \o "'\r\n"
               /\ store' = sess[s].pre.store
               /\ expiry_times' = sess[s].pre.expiry_times
         /\ LET l == sess'[s] IN
            ( /\ Replies(s) /\ RejectedLine(l.prev) /\ AtomicLine(l.line)
              /\ l.pre.now = now' )
            => [store |-> store', expiry_times |-> expiry_times',
                reply |-> l.reply] = Atomic(l.line, l.pre, now')]_vars

\* After SET k1 v1, FOO k1 got its error reply and the GET k1 that followed
\* returned v1.
C11_Witness ==
    \E s \in Sessions :
      /\ Replied(s)
      /\ sess[s].prev = <<"FOO", "k1">>
      /\ sess[s].prevReply = "-ERR unknown command 'FOO'\r\n"
      /\ sess[s].line = <<"GET", "k1">> /\ sess[s].reply = BulkReply("v1")

\* C12: whenever no session is inside a command, the total-commands counter
\* equals the number of command lines the sessions have received, however
\* the sessions' commands interleaved.
C12_CounterExact ==
    (\A s \in Sessions : sess[s].pc \in {"new", "connect", "recv"})
    => total_commands = issued

\* The command lines of the characters chars, in order: each complete line
\* split into its words, the empty ones left out.
RECURSIVE CommandLines(_)
CommandLines(chars) ==
    IF ~HasLine(chars) THEN <<>>
    ELSE LET command_line == Words(FirstLine(chars), "") IN
         (IF command_line = <<>> THEN <<>> ELSE <<command_line>>)
           \o CommandLines(AfterFirstLine(chars))

\* The command lines run one after the other from the maps of m: the maps
\* they leave and their replies, in order.
RECURSIVE RunLines(_, _)
RunLines(lines, m) ==
    IF Len(lines) = 0 THEN m
    ELSE LET r == Atomic(lines[1], m, 0) IN
         RunLines(Tail(lines),
                  [store |-> r.store, expiry_times |-> r.expiry_times,
                   out |-> Append(m.out, r.reply)])

\* The replies session s has sent to its command lines.
Outs(s) ==
    IF sess[s].line = <<>> THEN sess[s].out
    ELSE Append(sess[s].out, sess[s].reply)

\* Session s has read all the bytes of its stream and is done with them.
StreamDone(s) ==
    /\ sess[s].stream # <<>>
    /\ \/ sess[s].pc = "closed"
       \/ sess[s].pc = "recv" /\ sess[s].input = <<>> /\ ~HasLine(sess[s].buffer)

\* C13: in whatever reads the bytes of a connection arrive, once the session
\* is done with them it has sent one reply per complete non-empty line, in
\* order, and left the store, exactly as when all the bytes arrive in one
\* read; a last line without its line feed has no reply.
C13_ChunkingIndependent ==
    \A s \in Sessions :
      StreamDone(s)
      => LET whole == RunLines(CommandLines(Utf8Decode(sess[s].stream)),
                               [store |-> <<>>, expiry_times |-> <<>>, out |-> <<>>])
         IN /\ Outs(s) = whole.out
            /\ store = whole.store
            /\ expiry_times = whole.expiry_times

\* The same, for the streams of one-byte characters only.
ChunkingIndependentAscii ==
    \A s \in Sessions :
      (StreamDone(s) /\ \A j \in 1..Len(sess[s].stream) :
                           sess[s].stream[j] \notin {LeadByte, ContinuationByte})
      => LET whole == RunLines(CommandLines(Utf8Decode(sess[s].stream)),
                               [store |-> <<>>, expiry_times |-> <<>>, out |-> <<>>])
         IN /\ Outs(s) = whole.out
            /\ store = whole.store
            /\ expiry_times = whole.expiry_times

\* The entry of key k: its value and its expiry, if any.
Entry(st, ex, k) ==
    [value |-> IF Has(st, k) THEN <<Lookup(st, k)>> ELSE <<>>,
     expiry |-> IF Has(ex, k) THEN <<Lookup(ex, k)>> ELSE <<>>]

\* C14: when the sessions issue SET, GET and DEL each on a key of its own,
\* interleaved in any way with each other and with the cleanup thread, a
\* session's GET returns the value of its most recent SET, or null after its
\* DEL or when it has set nothing; no step of a session changes the entry of
\* another session's key, and no step of the cleanup thread changes a map.
C14_DisjointKeys ==
    [][/\ \A s \in Sessions :
            LET l == sess'[s] IN
            /\ (Replies(s) /\ OnKey(l, "GET", OwnKey(s)))
               => l.reply =
                    IF l.prev = <<>> THEN NullReply
                    ELSE IF Upper(l.prev[1]) = "SET"
                    THEN BulkReply(Join(SubSeq(l.prev, 3, Len(l.prev))))
                    ELSE IF Upper(l.prev[1]) = "DEL" THEN NullReply
                    ELSE l.prevReply
            /\ sess'[s] # sess[s]
               => \A o \in Sessions \ {s} :
                    Entry(store', expiry_times', OwnKey(o))
                      = Entry(store, expiry_times, OwnKey(o))
       /\ sweeper' # sweeper => store' = store /\ expiry_times' = expiry_times]_vars

\* Session 1 read back its v1 from a store that also held session 2's key.
C14_Witness ==
    /\ Replied(1) /\ Replied(2)
    /\ sess[1].prev = <<"SET", "k1", "v1">>
    /\ sess[1].line = <<"GET", "k1">> /\ sess[1].reply = BulkReply("v1")
    /\ Has(sess[1].pre.store, "k2")
    /\ sess[2].line = <<"SET", "k2", "v2">>

\* The sessions that have started and not ended.
OpenSessions == {s \in Sessions : sess[s].pc \notin {"new", "closed"}}

\* C15: whenever no session is inside its increment or its decrement of the
\* connected-clients counter, the counter equals the number of open
\* sessions; it is never negative, and it is 0 when all sessions have ended.
C15_ClientCount ==
    /\ connected_clients >= 0
    /\ (\A s \in Sessions : sess[s].pc \notin {"connect", "disconnect"})
       => connected_clients = Cardinality(OpenSessions)

\* The replies of _process_command's except clause to a KeyError.
KeyErrorReplies == {KeyErrorReply(k) : k \in Keys}

\* l.line is a well-formed SET, GET, DEL, EXPIRE, TTL, PTTL, EXISTS, TYPE,
\* KEYS or FLUSHALL.
WellFormedLine(line) ==
    /\ line # <<>>
    /\ Upper(line[1]) \in {"SET", "GET", "DEL", "EXPIRE", "TTL", "PTTL",
                           "EXISTS", "TYPE", "KEYS", "FLUSHALL"}
    /\ ArityOk(Upper(line[1]), Len(line) - 1)
    /\ Upper(line[1]) = "EXPIRE" => IsInt(line[3])

\* C16: a well-formed SET, GET, DEL, EXPIRE, TTL, PTTL, EXISTS, TYPE, KEYS
\* or FLUSHALL is never answered with an error, however it interleaves with
\* the other sessions' commands.
C16_NoStoreError ==
    \A s \in Sessions :
      (Replied(s) /\ WellFormedLine(sess[s].line))
      => sess[s].reply \notin KeyErrorReplies

\* C17: when the cleanup thread deletes a key from the value map, the key's
\* expiry has passed at that moment: the key has an expiry entry and the
\* clock is past it.
C17_SweeperRemovesOnlyExpired ==
    [][(sweeper.pc = "del_store" /\ sweeper' # sweeper /\ Has(store, SweepKey))
       => Passed([expiry_times |-> expiry_times], SweepKey, now)]_vars

\* The client has sent all the command lines it will send and has its
\* replies.
ClientDone == AtRest(1) /\ issued = MaxSweepCmds

ExpiredEntry(k) == Passed([expiry_times |-> expiry_times], k, now)

\* C18: the cleanup thread always has a next step, whatever happened in its
\* cycle; scheduled fairly, it lets no entry whose expiry has passed stay
\* expired forever, and once the client is silent every such entry is
\* removed from the value map and from the expiry map.
C18_SweeperLive ==
    /\ [](ENABLED Sweeper)
    /\ \A k \in Keys :
         /\ ExpiredEntry(k) ~> ~ExpiredEntry(k)
         /\ (ExpiredEntry(k) /\ ClientDone)
              ~> (~Has(store, k) /\ ~Has(expiry_times, k))

\* The commands that are read commands other than GET.
PureReads == {"TTL", "PTTL", "EXISTS", "TYPE", "KEYS", "INFO", "PING", "ECHO"}

\* Session s takes a step of the command it is running.
Runs(s) == sess[s].pc \notin {"new", "connect", "recv", "closed"} /\ sess'[s] # sess[s]

C20_NoOrphanExpiry ==
    ((\A s \in Sessions : AtRest(s)) /\ SweeperAtRest)
    => \A j \in 1..Len(expiry_times) : Has(store, expiry_times[j][1])

====
